---- MODULE Spec2Model ----
(***************************************************************************)
(* TMSU Explorer (src/tmsu_explorer.py): the Backend wrapper around the    *)
(* tmsu and exiftool processes, the SourceTree navigation tree and the     *)
(* TMSUExplorer application's handlers, as a state machine.                *)
(*                                                                         *)
(* Strings are sequences of one-character strings, so that strip, split,   *)
(* replace and sorted are computed as Python computes them.                *)
(***************************************************************************)
EXTENDS Integers, Sequences, FiniteSets, TLC

None == "None"

(***************************************************************************)
(* Python str / list primitives used by the source.                        *)
(***************************************************************************)

\* Code points of the characters the model's strings are made of.
CodePoint ==
    [c \in {"/", "h", "w", "a", "B", "_", "b", "x", "s", ".", "c", ":", " ", "\t", "\n",
            "d", "e", "g", "l", "n", "t", "u"} |->
        CASE c = "/" -> 47
          [] c = "h" -> 104
          [] c = "w" -> 119
          [] c = "a" -> 97
          [] c = "B" -> 66
          [] c = "_" -> 95
          [] c = "b" -> 98
          [] c = "x" -> 120
          [] c = "s" -> 115
          [] c = "." -> 46
          [] c = "c" -> 99
          [] c = ":" -> 58
          [] c = " " -> 32
          [] c = "\t" -> 9
          [] c = "\n" -> 10
          [] c = "d" -> 100
          [] c = "e" -> 101
          [] c = "g" -> 103
          [] c = "l" -> 108
          [] c = "n" -> 110
          [] c = "t" -> 116
          [] c = "u" -> 117]

\* ord(c)
Ord(c) == IF c \in DOMAIN CodePoint THEN CodePoint[c] ELSE 0

\* str.isspace for one character.
IsSpace(c) == c \in {" ", "\t", "\n"}

\* str.lower for one character.
LowerChar(c) ==
    IF c \notin {"B", "C", "D", "N"} THEN c
    ELSE CASE c = "B" -> "b"
           [] c = "C" -> "c"
           [] c = "D" -> "d"
           [] c = "N" -> "n"

\* str.lower.
Lower(s) == [i \in 1..Len(s) |-> LowerChar(s[i])]

\* str < str: lexicographic by code point.
RECURSIVE StrLess(_, _)
StrLess(s, t) ==
    IF t = <<>> THEN FALSE
    ELSE IF s = <<>> THEN TRUE
    ELSE IF Head(s) = Head(t) THEN StrLess(Tail(s), Tail(t))
    ELSE Ord(Head(s)) < Ord(Head(t))

\* str.lstrip.
RECURSIVE LStrip(_)
LStrip(s) ==
    IF s # <<>> /\ IsSpace(Head(s)) THEN LStrip(Tail(s)) ELSE s

\* str.rstrip.
RECURSIVE RStrip(_)
RStrip(s) ==
    IF s # <<>> /\ IsSpace(s[Len(s)]) THEN RStrip(SubSeq(s, 1, Len(s) - 1)) ELSE s

\* str.strip.
Strip(s) == RStrip(LStrip(s))

\* str.replace(old, new) for one-character old and new.
Replace(s, old, new) == [i \in 1..Len(s) |-> IF s[i] = old THEN new ELSE s[i]]

\* `c in s` for a one-character c.
Contains(s, c) == \E i \in 1..Len(s) : s[i] = c

\* `sub in s` for strings.
IsSubstring(sub, s) ==
    \E i \in 1..(Len(s) - Len(sub) + 1) : \A j \in 1..Len(sub) : s[i + j - 1] = sub[j]

\* Index of the first occurrence of c in s (0 when absent).
RECURSIVE IndexOf(_, _, _)
IndexOf(s, c, i) ==
    IF i > Len(s) THEN 0
    ELSE IF s[i] = c THEN i
    ELSE IndexOf(s, c, i + 1)

\* str.splitlines for "\n" line ends: no empty last line after a final "\n".
RECURSIVE SplitLines(_)
SplitLines(s) ==
    IF s = <<>> THEN <<>>
    ELSE LET k == IndexOf(s, "\n", 1)
         IN  IF k = 0 THEN <<s>>
             ELSE <<SubSeq(s, 1, k - 1)>> \o SplitLines(SubSeq(s, k + 1, Len(s)))

\* The first word of s, which starts with a non-space character.
RECURSIVE WordEnd(_, _)
WordEnd(s, i) ==
    IF i > Len(s) \/ IsSpace(s[i]) THEN i - 1 ELSE WordEnd(s, i + 1)

\* str.split() with no argument: the runs of non-whitespace characters.
RECURSIVE SplitWs(_)
SplitWs(s) ==
    LET t == LStrip(s)
    IN  IF t = <<>> THEN <<>>
        ELSE LET e == WordEnd(t, 1)
             IN  <<SubSeq(t, 1, e)>> \o SplitWs(SubSeq(t, e + 1, Len(t)))

\* str.split(c, 1): at most one split, at the first occurrence of c.
SplitOnce(s, c) ==
    LET k == IndexOf(s, c, 1)
    IN  IF k = 0 THEN <<s>>
        ELSE <<SubSeq(s, 1, k - 1), SubSeq(s, k + 1, Len(s))>>

\* sep.join(parts).
RECURSIVE Join(_, _)
Join(parts, sep) ==
    IF parts = <<>> THEN <<>>
    ELSE IF Len(parts) = 1 THEN parts[1]
    ELSE parts[1] \o sep \o Join(Tail(parts), sep)

\* The elements of a sequence.
Range(seq) == {seq[i] : i \in 1..Len(seq)}

\* Insertion of x into a list sorted by str <, after its equals (sorted is stable).
RECURSIVE InsertStr(_, _)
InsertStr(x, seq) ==
    IF seq = <<>> THEN <<x>>
    ELSE IF StrLess(x, Head(seq)) THEN <<x>> \o seq
    ELSE <<Head(seq)>> \o InsertStr(x, Tail(seq))

\* sorted(list of str); also sorted(paths): same-depth paths order as their strings.
RECURSIVE SortedStr(_)
SortedStr(seq) ==
    IF seq = <<>> THEN <<>>
    ELSE InsertStr(seq[Len(seq)], SortedStr(SubSeq(seq, 1, Len(seq) - 1)))

\* Where the last component of p starts: after its last "/", found from the end.
RECURSIVE NameStart(_, _)
NameStart(p, i) == IF i = 0 \/ p[i] = "/" THEN i + 1 ELSE NameStart(p, i - 1)

\* Path.name: the part after the last "/".
PathName(p) == SubSeq(p, NameStart(p, Len(p)), Len(p))

(***************************************************************************)
(* The world outside the program: the disk and the tag store.              *)
(***************************************************************************)

\* The user's home directory.
Home == <<"/", "h">>
\* The process working directory, below Home and the root of the tag database.
DirW == Home \o <<"/", "w">>
\* A directory that cannot be listed and lies outside the database tree.
DirX == Home \o <<"/", "x">>
Dirs == {DirW, DirX}

\* Further directories: a subdirectory of DirW, two of Home that differ in case,
\* and a hidden one.
DirS == DirW \o <<"/", "s">>
HomeA == Home \o <<"/", "a">>
HomeB == Home \o <<"/", "B">>
HomeHidden == Home \o <<"/", ".", "c">>
\* The directories that may be created and removed while the program runs.
TransientDirs == {DirS, HomeA, HomeB}

\* The regular files the disk may hold, both directly in DirW.
F1 == DirW \o <<"/", "B">>
F2 == DirW \o <<"/", "a">>
AllFiles == {F1, F2}
\* A hidden regular file in DirW, which is always there and never tagged.
HiddenFile == DirW \o <<"/", ".", "c">>

\* Every path of this world.
Paths == {Home, HomeHidden, HiddenFile} \cup Dirs \cup TransientDirs \cup AllFiles

\* The tag names the store may hold.
TagA == <<"a">>
TagAB == <<"a", "_", "b">>
TagNames == {TagA, TagAB}

\* The data of the two query leaves of the tree ("query:all", "query:untagged")
\* once the prefix is stripped.  Nothing keeps a tag from having either name.
QAll == <<"a", "l", "l">>
QUntagged == <<"u", "n", "t", "a", "g", "g", "e", "d">>

\* What the user may type into the tag input: a tag with an inner and a trailing
\* space, and a blank.
RawInputs == {<<"a", " ", "b", " ">>, <<" ">>}

\* The order in which tmsu prints paths and tag names (its database's own), and the
\* order in which the OS lists DirW: neither is the sorted order.
DbFileOrder == <<F2, F1>>
DbTagOrder == <<QUntagged, TagAB, QAll, TagA>>
OsDirOrder == <<DirX, F1, DirS, HomeHidden, DirW, HiddenFile, HomeB, F2, HomeA>>

\* The members of S in the order of the sequence `order`.
InOrder(order, S) == SelectSeq(order, LAMBDA x : x \in S)

\* How many processes may hit the timeout, and how many files may vanish, in one run.
MaxGlitches == 1
MaxDeletes == 1
\* How many directories may be created or removed, and how many times tree nodes
\* may be expanded, in one run.
MaxFsChanges == 2
MaxExpansions == 4

\* Diagnostics the tools and the process layer produce.
ErrNoDb == "tmsu: no database found"
ErrTimeout == "Command timed out"
ErrNotTagged == "tmsu: file is not tagged"
ErrNoFile == "tmsu: no such file"
ErrNoTag == "tmsu: no such tag"
ErrNoDbCapitals == "tmsu: No Database"
ErrLocked == "tmsu: database is locked"
ErrDbExists == "tmsu: database already exists"
ErrNotFound == "Command not found: tmsu"
ErrOs == "[Errno 13] Permission denied"

\* The characters of the diagnostics that are searched for a marker.
Chars(diagnostic) ==
    CASE diagnostic = ErrNoDb ->
            <<"t", "m", "s", "u", ":", " ", "n", "o", " ", "d", "a", "t", "a", "b", "a",
              "s", "e", " ", "f", "o", "u", "n", "d">>
      [] diagnostic = ErrNoDbCapitals ->
            <<"t", "m", "s", "u", ":", " ", "N", "o", " ", "D", "a", "t", "a", "b", "a",
              "s", "e">>
      [] diagnostic = ErrLocked ->
            <<"t", "m", "s", "u", ":", " ", "d", "a", "t", "a", "b", "a", "s", "e", " ",
              "i", "s", " ", "l", "o", "c", "k", "e", "d">>
      [] diagnostic = ErrTimeout ->
            <<"C", "o", "m", "m", "a", "n", "d", " ", "t", "i", "m", "e", "d", " ", "o",
              "u", "t">>
      [] diagnostic = ErrNotFound ->
            <<"C", "o", "m", "m", "a", "n", "d", " ", "n", "o", "t", " ", "f", "o", "u",
              "n", "d", ":", " ", "t", "m", "s", "u">>
      [] OTHER -> <<>>

\* Path(cwd) of the process: cwd=None runs in the process's own directory.
EffectiveCwd(cwd) == IF cwd = None THEN DirW ELSE cwd

\* Whether tmsu finds a database from the working directory.
HasDb(cwd) == EffectiveCwd(cwd) = DirW

\* The tags some file holds in the database.
TagsInUse(st) == UNION {st[f] : f \in AllFiles}

\* The files holding a tag.
FilesWith(st, tag) == {f \in AllFiles : tag \in st[f]}

\* A process that ran to its exit.
Exit(code, out, err) == [kind |-> "exit", code |-> code, stdout |-> out, stderr |-> err]
\* A process killed at the timeout.
TimedOut == [kind |-> "timeout", code |-> 0, stdout |-> <<>>, stderr |-> ""]
\* A process that could not be started: the executable is not there.
NotStarted == [kind |-> "notfound", code |-> 0, stdout |-> <<>>, stderr |-> ""]
\* subprocess.run raising any other exception e, with text == str(e).
Raised(text) == [kind |-> "raised", code |-> 0, stdout |-> <<>>, stderr |-> text]

\* One line per item, each ended by a line feed, as the tools print lists.
PrintLines(lines) == IF lines = <<>> THEN <<>> ELSE Join(lines, <<"\n">>) \o <<"\n">>

\* `tmsu tags` in cwd: the tags in use, one per line, in the tool's order.
ProcTags(st, cwd) ==
    {TimedOut} \cup
    (IF HasDb(cwd)
     THEN {Exit(0, PrintLines(InOrder(DbTagOrder, TagsInUse(st))), "")}
     ELSE {Exit(1, <<>>, ErrNoDb)})

\* `tmsu tags <file>` in cwd: the file's tags on one line, bare or after "<file>: ".
ProcFileTags(st, cwd, f) ==
    {TimedOut} \cup
    (IF HasDb(cwd)
     THEN LET line == Join(InOrder(DbTagOrder, st[f]), <<" ">>)
          IN  {Exit(0, line \o <<"\n">>, ""),
               Exit(0, f \o <<":", " ">> \o line \o <<"\n">>, "")}
     ELSE {Exit(1, <<>>, ErrNoDb)})

\* `tmsu tag <file> <tag>` in cwd: the process result and the database after it.
ProcTag(st, disk, cwd, f, tag) ==
    {[proc |-> TimedOut, store |-> st]} \cup
    (IF ~HasDb(cwd) THEN {[proc |-> Exit(1, <<>>, ErrNoDb), store |-> st]}
     ELSE IF f \notin disk THEN {[proc |-> Exit(1, <<>>, ErrNoFile), store |-> st]}
     ELSE {[proc |-> Exit(0, <<>>, ""),
            store |-> [st EXCEPT ![f] = @ \cup {tag}]]})

\* `tmsu untag <file> <tag>` in cwd: the process result and the database after it.
ProcUntag(st, cwd, f, tag) ==
    {[proc |-> TimedOut, store |-> st]} \cup
    (IF ~HasDb(cwd) THEN {[proc |-> Exit(1, <<>>, ErrNoDb), store |-> st]}
     ELSE IF tag \notin st[f] THEN {[proc |-> Exit(1, <<>>, ErrNotTagged), store |-> st]}
     ELSE {[proc |-> Exit(0, <<>>, ""), store |-> [st EXCEPT ![f] = @ \ {tag}]]})

\* `tmsu files <query>` in cwd: the files holding the tag, one path per line.
ProcFiles(st, cwd, query) ==
    {TimedOut} \cup
    (IF ~HasDb(cwd) THEN {Exit(1, <<>>, ErrNoDb)}
     ELSE IF query \notin TagsInUse(st) THEN {Exit(1, <<>>, ErrNoTag)}
     ELSE {Exit(0, PrintLines(InOrder(DbFileOrder, FilesWith(st, query))), "")})

\* `tmsu untagged` in cwd: the files on disk below cwd that hold no tag.
ProcUntagged(st, disk, cwd) ==
    {TimedOut} \cup
    (IF ~HasDb(cwd) THEN {Exit(1, <<>>, ErrNoDb)}
     ELSE {Exit(0, PrintLines(InOrder(DbFileOrder, {f \in disk : st[f] = {}})), "")})

\* `exiftool -json -G <file>`: a one-element JSON array, or a failure.
JsonOne == <<"[", "{", "k", "}", "]">>
ProcExif(f) ==
    {TimedOut, Exit(0, JsonOne \o <<"\n">>, "")}

(***************************************************************************)
(* Backend                                                                 *)
(***************************************************************************)

\* A gateway that reports every process that ran to its exit as a success.
_run_commandIgnoringExitCode(proc) ==
    [success |-> proc.kind = "exit", stdout |-> Strip(proc.stdout),
     stderr |-> IF proc.kind = "exit" THEN proc.stderr ELSE ErrTimeout]

\* Backend._run_command: (success, stdout, stderr) of one process, never raising.
\* The diagnostics of the model carry no surrounding whitespace.
_run_command(proc) ==
    IF proc.kind = "exit"
    THEN [success |-> proc.code = 0, stdout |-> Strip(proc.stdout), stderr |-> proc.stderr]
    ELSE IF proc.kind = "timeout"
    THEN [success |-> FALSE, stdout |-> <<>>, stderr |-> ErrTimeout]
    ELSE IF proc.kind = "notfound"
    THEN [success |-> FALSE, stdout |-> <<>>, stderr |-> ErrNotFound]
    ELSE [success |-> FALSE, stdout |-> <<>>, stderr |-> proc.stderr]

\* The record kept of one process call: the command and what _run_command returned
\* for it, but for the output.
Call(cmd, r) == [cmd |-> cmd, ok |-> r.success, stderr |-> r.stderr]

\* A check that finds the marker in no diagnostic.
MentionsNothing(stderr) == FALSE

\* `"no database" in stderr.lower()`
NoDatabaseMarker == <<"n", "o", " ", "d", "a", "t", "a", "b", "a", "s", "e">>
\* The check worked out once for each diagnostic that has characters.
MarkerIn ==
    [d \in {ErrNoDb, ErrNoDbCapitals, ErrLocked, ErrTimeout, ErrNotFound} |->
        IsSubstring(NoDatabaseMarker, Lower(Chars(d)))]
MentionsNoDatabase(stderr) ==
    IF stderr \in DOMAIN MarkerIn THEN MarkerIn[stderr]
    ELSE IsSubstring(NoDatabaseMarker, Lower(Chars(stderr)))

\* [t.strip() for t in stdout.splitlines() if t.strip()]
StrippedLines(stdout) ==
    LET lines == SplitLines(stdout)
    IN  SelectSeq([i \in 1..Len(lines) |-> Strip(lines[i])], LAMBDA t : t # <<>>)

\* Backend.get_all_tags: proc is the result of the `tmsu tags` process, run only
\* when the tool path is set.  calls lists the process calls made.
get_all_tags(path, proc) ==
    IF path = None THEN [success |-> FALSE, tags |-> <<>>, calls |-> <<>>]
    ELSE LET r == _run_command(proc)
         IN  IF r.success /\ r.stdout # <<>>
             THEN [success |-> TRUE, tags |-> SortedStr(StrippedLines(r.stdout)),
                   calls |-> <<Call("tags", r)>>]
             ELSE IF MentionsNoDatabase(r.stderr)
             THEN [success |-> TRUE, tags |-> <<>>, calls |-> <<Call("tags", r)>>]
             ELSE [success |-> FALSE, tags |-> <<>>, calls |-> <<Call("tags", r)>>]

\* Backend.get_file_tags.
get_file_tags(path, proc) ==
    IF path = None THEN [success |-> FALSE, tags |-> <<>>, calls |-> <<>>]
    ELSE LET r == _run_command(proc)
         IN  IF r.success /\ r.stdout # <<>>
             THEN [success |-> TRUE,
                   tags |-> IF Contains(r.stdout, ":")
                            THEN SplitWs(Strip(SplitOnce(r.stdout, ":")[2]))
                            ELSE SplitWs(Strip(r.stdout)),
                   calls |-> <<Call("tags_file", r)>>]
             ELSE [success |-> TRUE, tags |-> <<>>, calls |-> <<Call("tags_file", r)>>]

\* A sanitizer that replaces the spaces and strips nothing.
SanitizeTagNoStrip(tag) == Replace(tag, " ", "_")

\* tag.strip().replace(" ", "_") of Backend.add_tag.
SanitizeTag(tag) == Replace(Strip(tag), " ", "_")

\* Backend.add_tag: o is the result of `tmsu tag <file> <sanitized tag>` and the
\* database after it; the process runs only past both early returns.
add_tag(path, tag, st, o) ==
    IF path = None
    THEN [success |-> FALSE, error |-> "TMSU not available", store |-> st, calls |-> <<>>]
    ELSE IF SanitizeTag(tag) = <<>>
    THEN [success |-> FALSE, error |-> "Empty tag name", store |-> st, calls |-> <<>>]
    ELSE LET r == _run_command(o.proc)
         IN  [success |-> r.success,
              error |-> IF r.success THEN ""
                        ELSE IF r.stderr # "" THEN r.stderr ELSE "Unknown error",
              store |-> o.store,
              calls |-> <<Call("tag", r)>>]

\* A remove_tag that reports success whatever the process returned.
remove_tagIgnoringResult(path, st, o) ==
    [success |-> TRUE, error |-> "", store |-> o.store,
     calls |-> <<Call("untag", _run_command(o.proc))>>]

\* Backend.remove_tag: o is the result of `tmsu untag <file> <tag>`.
remove_tag(path, st, o) ==
    IF path = None
    THEN [success |-> FALSE, error |-> "TMSU not available", store |-> st, calls |-> <<>>]
    ELSE LET r == _run_command(o.proc)
         IN  [success |-> r.success,
              error |-> IF r.success THEN ""
                        ELSE IF r.stderr # "" THEN r.stderr ELSE "Unknown error",
              store |-> o.store,
              calls |-> <<Call("untag", r)>>]

\* A query_files that runs the process without looking at the tool path.
query_filesUnguarded(path, proc) ==
    LET r == _run_command(proc)
    IN  IF r.success /\ r.stdout # <<>>
        THEN [success |-> TRUE, files |-> StrippedLines(r.stdout),
              calls |-> <<Call("files", r)>>]
        ELSE [success |-> TRUE, files |-> <<>>, calls |-> <<Call("files", r)>>]

\* Backend.query_files: proc is the result of `tmsu files <query>`.
query_files(path, proc) ==
    IF path = None THEN [success |-> FALSE, files |-> <<>>, calls |-> <<>>]
    ELSE LET r == _run_command(proc)
         IN  IF r.success /\ r.stdout # <<>>
             THEN [success |-> TRUE, files |-> StrippedLines(r.stdout),
                   calls |-> <<Call("files", r)>>]
             ELSE [success |-> TRUE, files |-> <<>>, calls |-> <<Call("files", r)>>]

\* A listing of the untagged files that passes the failure of its process on.
get_untagged_filesReporting(path, proc) ==
    IF path = None THEN [success |-> FALSE, files |-> <<>>, calls |-> <<>>]
    ELSE LET r == _run_command(proc)
         IN  [success |-> r.success,
              files |-> IF r.success THEN StrippedLines(r.stdout) ELSE <<>>,
              calls |-> <<Call("untagged", r)>>]

\* Backend.get_untagged_files: proc is the result of `tmsu untagged`.
get_untagged_files(path, proc) ==
    IF path = None THEN [success |-> FALSE, files |-> <<>>, calls |-> <<>>]
    ELSE LET r == _run_command(proc)
         IN  IF r.success /\ r.stdout # <<>>
             THEN [success |-> TRUE, files |-> StrippedLines(r.stdout),
                   calls |-> <<Call("untagged", r)>>]
             ELSE [success |-> TRUE, files |-> <<>>, calls |-> <<Call("untagged", r)>>]

\* Backend.init_database: proc is the result of `tmsu init`.
init_database(path, proc) ==
    IF path = None
    THEN [success |-> FALSE, error |-> "TMSU not available", calls |-> <<>>]
    ELSE LET r == _run_command(proc)
         IN  [success |-> r.success,
              error |-> IF r.success THEN ""
                        ELSE IF r.stderr # "" THEN r.stderr ELSE "Unknown error",
              calls |-> <<Call("init", r)>>]

\* json.loads over the documents exiftool may print: the parsed list's length,
\* 0 also for a document that is not a list, or -1 for a JSONDecodeError.
JsonEmpty == <<"[", "]">>
JsonLoads(doc) == IF doc = JsonOne THEN 1 ELSE IF doc = JsonEmpty THEN 0 ELSE -1

\* A get_metadata that runs exiftool without looking for the file first.
get_metadataUnchecked(path, exists, proc) ==
    LET r == _run_command(proc)
    IN  IF r.success /\ r.stdout # <<>> /\ JsonLoads(r.stdout) > 0
        THEN [data |-> TRUE, error |-> None, calls |-> <<Call("exiftool", r)>>]
        ELSE [data |-> FALSE, error |-> "No metadata available",
              calls |-> <<Call("exiftool", r)>>]

\* Backend.get_metadata: ExifMetadata(data, error); proc is the exiftool result.
get_metadata(path, exists, proc) ==
    IF path = None
    THEN [data |-> FALSE, error |-> "ExifTool not available", calls |-> <<>>]
    ELSE IF ~exists
    THEN [data |-> FALSE, error |-> "File not found", calls |-> <<>>]
    ELSE LET r == _run_command(proc)
         IN  IF r.success /\ r.stdout # <<>> /\ JsonLoads(r.stdout) > 0
             THEN [data |-> TRUE, error |-> None, calls |-> <<Call("exiftool", r)>>]
             ELSE IF r.success /\ r.stdout # <<>> /\ JsonLoads(r.stdout) < 0
             THEN [data |-> FALSE, error |-> "JSON parse error",
                   calls |-> <<Call("exiftool", r)>>]
             ELSE [data |-> FALSE,
                   error |-> IF r.stderr # "" THEN r.stderr ELSE "No metadata available",
                   calls |-> <<Call("exiftool", r)>>]

(***************************************************************************)
(* State                                                                   *)
(***************************************************************************)
VARIABLES
    disk,            \* the regular files that exist on disk
    store,           \* the tag database: file -> set of tag names
    tmsu_path,       \* Backend.tmsu_path
    exiftool_path,   \* Backend.exiftool_path
    dialog,          \* whether the modal ToolPathDialog is on screen
    current_path,    \* TMSUExplorer.current_path
    _current_files,  \* TMSUExplorer._current_files, as the list of their paths
    table,           \* the row keys of the #file-table DataTable
    selected_file,   \* TMSUExplorer.selected_file, as its path
    _all_tags,       \* TMSUExplorer._all_tags
    tag_list,        \* the items of the #tag-list TagList
    panel,           \* the ExifMetadata the #metadata-panel shows
    chips,           \* TagEditor._tags: the tag chips on screen
    fetched_for,     \* the file whose fetch filled panel and chips last
    workers,         \* the _load_file_metadata workers created and not yet run
    superseded,      \* whether a pending fetch was ever replaced by one for another file
    round_trip,      \* the last successful add, while only its re-fetch and its undo followed
    glitches,        \* how many processes have hit the timeout so far
    deletes,         \* how many files have vanished so far
    op,              \* the handler that ran last
    log,             \* what that handler wrote to the log panel
    calls,           \* the process calls that handler made
    fs_dirs,         \* the directories that exist on disk
    fs_changes,      \* how many directories have been created or removed so far
    nodes,           \* the nodes of the SourceTree, in the order of their creation
    _expanded_paths, \* SourceTree._expanded_paths
    scans,           \* per node, how many times its directory was listed for it
    expansions,      \* per node, how many NodeExpanded events it has had
    posted,          \* the node selected last and the message SourceTree posted for it
    tags_stdout,     \* what a `tmsu tags` process printed, for the tag-list runs
    request,         \* the Backend method called directly and its arguments
    response         \* what that method returned

envVars == <<disk, store, deletes>>
backendVars == <<tmsu_path, exiftool_path>>
listVars == <<current_path, _current_files, table>>
tagVars == <<_all_tags, tag_list>>
inspectorVars == <<panel, chips, fetched_for>>
selectVars == <<selected_file, superseded>>
traceVars == <<op, log, calls>>
treeVars == <<fs_dirs, fs_changes, nodes, _expanded_paths, scans, expansions, posted>>
callVars == <<request, response>>
auxVars == <<treeVars, tags_stdout, callVars>>
appVars == <<disk, store, tmsu_path, exiftool_path, dialog, current_path, _current_files,
          table, selected_file, _all_tags, tag_list, panel, chips, fetched_for,
          workers, superseded, round_trip, glitches, deletes, op, log, calls>>
vars == <<appVars, auxVars>>

\* The query keys of the two virtual query leaves.
(***************************************************************************)
(* SourceTree                                                              *)
(***************************************************************************)

\* A node of the tree: its parent's index (0 for the root), its data string and
\* whether the user can expand it.
TreeNode(parent, data, allow_expand) ==
    [parent |-> parent, data |-> data, allow_expand |-> allow_expand]

\* The root node Tree.__init__ creates for the label "Sources".
RootNode == TreeNode(0, <<>>, TRUE)

\* f"dir:{path}"
DirData(path) == <<"d", "i", "r", ":">> \o path
ErrorData == <<"e", "r", "r", "o", "r">>

\* str.startswith
StartsWith(s, prefix) == Len(s) >= Len(prefix) /\ SubSeq(s, 1, Len(prefix)) = prefix

\* No node has been selected.
NoMessage == [node |-> 0, message |-> "none", arg |-> <<>>]

\* SourceTree.__init__: the root alone and no expanded path; Home, DirW, DirX, the
\* hidden directory and two of the transient ones exist.
InitTree ==
    /\ fs_dirs = {DirW, DirX, HomeHidden, DirS, HomeB}
    /\ fs_changes = 0
    /\ nodes = <<RootNode>>
    /\ _expanded_paths = {}
    /\ scans = <<0>>
    /\ expansions = <<0>>
    /\ posted = NoMessage

\* No add is being followed.
NoRoundTrip ==
    [file |-> None, tag |-> <<>>, store0 |-> [f \in AllFiles |-> {}], cache0 |-> <<>>,
     phase |-> "none"]

\* No Backend method has been called directly.
NoRequest ==
    [op |-> "none", file |-> <<>>, tag |-> <<>>, printed |-> <<>>, prefixed |-> FALSE,
     proc |-> TimedOut]
NoResponse == [success |-> FALSE, error |-> "", items |-> <<>>, argv |-> <<>>]

\* Backend.__init__ and TMSUExplorer.__init__: the tools are looked up in PATH and
\* either may be missing; nothing is loaded before on_mount.
InitApp(database) ==
    /\ disk = AllFiles
    /\ store = database
    /\ tmsu_path \in {None, "tmsu"}
    /\ exiftool_path \in {None, "exiftool"}
    /\ dialog = FALSE
    /\ current_path = None
    /\ _current_files = <<>>
    /\ table = <<>>
    /\ selected_file = None
    /\ _all_tags = <<>>
    /\ tag_list = <<>>
    /\ panel = [data |-> FALSE, error |-> None]
    /\ chips = <<>>
    /\ fetched_for = None
    /\ workers = <<>>
    /\ superseded = FALSE
    /\ round_trip = NoRoundTrip
    /\ glitches = 0
    /\ deletes = 0
    /\ op = "__init__"
    /\ log = <<>>
    /\ calls = <<>>
    /\ InitTree
    /\ tags_stdout = <<>>

InitWith(database) ==
    /\ InitApp(database)
    /\ request = NoRequest
    /\ response = NoResponse

\* The program starts on a database that holds no tag yet.
Init == InitWith([f \in AllFiles |-> {}])

\* The timeouts among the process calls of one handler are counted against the
\* run's budget.
TimedOutCalls(cs) == Cardinality({i \in 1..Len(cs) : cs[i].stderr = ErrTimeout})
Charge(cs) ==
    /\ glitches + TimedOutCalls(cs) <= MaxGlitches
    /\ glitches' = glitches + TimedOutCalls(cs)

\* The user can reach the main screen: the app is mounted and no modal is up.
Interactive == op # "__init__" /\ op # "subprocess.run" /\ ~dialog

(***************************************************************************)
(* TMSUExplorer helpers                                                    *)
(***************************************************************************)

\* TMSUExplorer._log: one line of the log panel, with the diagnostic it carries.
Line(msg, detail) == [msg |-> msg, detail |-> detail]

\* TMSUExplorer._refresh_tags: the new tag cache and the log line, from the result
\* of Backend.get_all_tags in the current scope.
_refresh_tags(path, proc) ==
    LET g == get_all_tags(path, proc)
    IN  [tags |-> g.tags,
         log |-> <<Line(IF g.success THEN "Loaded tags" ELSE "Could not load tags", "")>>,
         calls |-> g.calls]

\* key=lambda p: p.name.lower(), worked out once for each path of the world.
NameKey == [p \in Paths |-> Lower(PathName(p))]

\* Insertion into a list sorted by p.name.lower(), after its equals.
RECURSIVE InsertByName(_, _)
InsertByName(x, seq) ==
    IF seq = <<>> THEN <<x>>
    ELSE IF StrLess(NameKey[x], NameKey[Head(seq)]) THEN <<x>> \o seq
    ELSE <<Head(seq)>> \o InsertByName(x, Tail(seq))

\* sorted(entries, key=lambda p: p.name.lower())
RECURSIVE SortedByName(_)
SortedByName(seq) ==
    IF seq = <<>> THEN <<>>
    ELSE InsertByName(seq[Len(seq)], SortedByName(SubSeq(seq, 1, Len(seq) - 1)))

\* Path.parent: the path up to its last "/".
Parent(p) == SubSeq(p, 1, Len(p) - Len(PathName(p)) - 1)
\* The same, worked out once for each path of the world.
ParentOf == [p \in Paths |-> Parent(p)]

\* path.iterdir(): the entries in the order the OS gives them, or the error raised.
IterDir(dirs, dsk, d) ==
    IF d = DirX THEN [error |-> "PermissionError", entries |-> <<>>]
    ELSE IF d \notin dirs \cup {Home}
    THEN [error |-> "FileNotFoundError", entries |-> <<>>]
    ELSE [error |-> None,
          entries |-> InOrder(OsDirOrder,
                              {e \in dirs \cup dsk \cup {HiddenFile} : ParentOf[e] = d})]

\* entry.name.startswith(".")
IsHidden(entry) == Head(PathName(entry)) = "."

\* A listing that shows every entry, hidden ones and directories too.
ListedEntries(entries, dirs) == SortedByName(entries)

\* The files of a directory listing: not hidden, regular files, by lower-cased name.
ListedFiles(entries, dirs) ==
    SelectSeq(SortedByName(entries), LAMBDA e : ~IsHidden(e) /\ e \notin dirs)

\* SourceTree._add_directory_node: the node added under parent for a directory.
_add_directory_node(parent, path) == TreeNode(parent, DirData(path), TRUE)

\* The children of a node, in the order they were added.
Children(ns, n) == SelectSeq([i \in 1..Len(ns) |-> i], LAMBDA i : ns[i].parent = n)

\* Insertion into a list sorted by (not p.is_dir(), p.name.lower()), after its equals.
RECURSIVE InsertByKind(_, _, _)
InsertByKind(x, seq, dirs) ==
    IF seq = <<>> THEN <<x>>
    ELSE LET y == Head(seq)
             less == IF (x \in dirs) # (y \in dirs) THEN x \in dirs
                     ELSE StrLess(NameKey[x], NameKey[y])
         IN  IF less THEN <<x>> \o seq
             ELSE <<y>> \o InsertByKind(x, Tail(seq), dirs)

\* sorted(path.iterdir(), key=lambda p: (not p.is_dir(), p.name.lower()))
RECURSIVE SortedByKind(_, _)
SortedByKind(seq, dirs) ==
    IF seq = <<>> THEN <<>>
    ELSE InsertByKind(seq[Len(seq)], SortedByKind(SubSeq(seq, 1, Len(seq) - 1), dirs), dirs)

\* SourceTree._populate_directory: the nodes added under node n for path: one per
\* visible subdirectory, or one error leaf when the listing raises.
_populate_directory(n, path) ==
    LET listing == IterDir(fs_dirs, disk, path)
        subdirs == SelectSeq(SortedByKind(listing.entries, fs_dirs),
                             LAMBDA e : ~IsHidden(e) /\ e \in fs_dirs)
    IN  IF listing.error # None THEN <<TreeNode(n, ErrorData, FALSE)>>
        ELSE [i \in 1..Len(subdirs) |-> _add_directory_node(n, subdirs[i])]

\* A worker group without exclusive=True: the earlier workers stay pending.
StartWorkerNoCancel(ws, f, origin) == Append(ws, [file |-> f, origin |-> origin])

\* @work(exclusive=True): creating a worker cancels the group's earlier workers,
\* and a cancelled worker that has not started never runs.
StartWorker(ws, f, origin) == <<[file |-> f, origin |-> origin]>>

\* [path for path in files if path.exists()]
Existing(files, dsk) == SelectSeq(files, LAMBDA f : f \in dsk)

(***************************************************************************)
(* TMSUExplorer handlers                                                   *)
(***************************************************************************)

\* TMSUExplorer.on_mount: _check_tools pushes the dialog when a tool is missing,
\* then the tag cache is loaded for the process's directory.
on_mount ==
    /\ op = "__init__"
    /\ \E pt \in ProcTags(store, current_path) :
          LET r == _refresh_tags(tmsu_path, pt)
          IN  /\ _all_tags' = r.tags
              /\ tag_list' = r.tags
              /\ log' = r.log
              /\ calls' = r.calls
    /\ dialog' = (tmsu_path = None \/ exiftool_path = None)
    /\ round_trip' = NoRoundTrip
    /\ UNCHANGED auxVars
    /\ op' = "on_mount"
    /\ Charge(calls')
    /\ UNCHANGED <<envVars, backendVars, listVars, selectVars, inspectorVars, workers>>

\* A setter that takes the path without looking at it.
set_tool_pathUnverified(old, given, isFile) == given

\* Backend.set_tmsu_path / set_exiftool_path: the path is taken when it is a file.
set_tool_path(old, given, isFile) == IF isFile THEN given ELSE old

\* TMSUExplorer._handle_tool_paths: the dialog's result holds a path for each
\* missing tool the user filled in; the tag cache is reloaded afterwards.
_handle_tool_paths ==
    /\ dialog
    /\ \E giveT, fileT, giveE, fileE \in BOOLEAN :
          /\ giveT => tmsu_path = None
          /\ giveE => exiftool_path = None
          /\ ~giveT => ~fileT
          /\ ~giveE => ~fileE
          /\ tmsu_path' = IF giveT THEN set_tool_path(tmsu_path, "tmsu", fileT)
                          ELSE tmsu_path
          /\ exiftool_path' = IF giveE THEN set_tool_path(exiftool_path, "exiftool", fileE)
                              ELSE exiftool_path
          /\ \E pt \in ProcTags(store, current_path) :
                LET r == _refresh_tags(tmsu_path', pt)
                IN  /\ _all_tags' = r.tags
                    /\ tag_list' = r.tags
                    /\ log' = (IF giveT
                               THEN <<Line(IF fileT THEN "TMSU path configured"
                                           ELSE "Invalid TMSU path", "")>>
                               ELSE <<>>)
                              \o (IF giveE
                                  THEN <<Line(IF fileE THEN "ExifTool path configured"
                                              ELSE "Invalid ExifTool path", "")>>
                                  ELSE <<>>)
                              \o r.log
                    /\ calls' = r.calls
    /\ dialog' = FALSE
    /\ round_trip' = NoRoundTrip
    /\ UNCHANGED auxVars
    /\ op' = "_handle_tool_paths"
    /\ Charge(calls')
    /\ UNCHANGED <<envVars, listVars, selectVars, inspectorVars, workers>>

\* TMSUExplorer._load_directory: the scope and the file list are replaced first;
\* a listing error returns before the table and the tag cache are refreshed.
_load_directory(path, pt) ==
    LET listing == IterDir(fs_dirs, disk, path)
    IN  IF listing.error # None
        THEN [current_path |-> path, files |-> <<>>, table |-> table,
              tags |-> _all_tags, taglist |-> tag_list,
              log |-> <<Line(IF listing.error = "PermissionError"
                             THEN "Permission denied"
                             ELSE "Error reading directory", "")>>,
              calls |-> <<>>]
        ELSE LET r == _refresh_tags(tmsu_path, pt)
                 fs == ListedFiles(listing.entries, fs_dirs)
             IN  [current_path |-> path, files |-> fs, table |-> fs,
                  tags |-> r.tags, taglist |-> r.tags,
                  log |-> r.log, calls |-> r.calls]

\* TMSUExplorer.on_directory_selected.
on_directory_selected ==
    /\ Interactive
    /\ \E path \in Dirs : \E pt \in ProcTags(store, path) :
          LET d == _load_directory(path, pt)
          IN  /\ current_path' = d.current_path
              /\ _current_files' = d.files
              /\ table' = d.table
              /\ _all_tags' = d.tags
              /\ tag_list' = d.taglist
              /\ log' = d.log
              /\ calls' = d.calls
    /\ round_trip' = NoRoundTrip
    /\ UNCHANGED auxVars
    /\ op' = "on_directory_selected"
    /\ Charge(calls')
    /\ UNCHANGED <<envVars, backendVars, dialog, selectVars, inspectorVars, workers>>

\* TMSUExplorer.action_refresh: the current directory is loaded again when there
\* is one, then the tag cache is reloaded.
action_refresh ==
    /\ Interactive
    /\ \E pt1 \in ProcTags(store, current_path), pt2 \in ProcTags(store, current_path) :
          LET d == IF current_path # None
                   THEN _load_directory(current_path, pt1)
                   ELSE [current_path |-> current_path, files |-> _current_files,
                         table |-> table, tags |-> _all_tags, taglist |-> tag_list,
                         log |-> <<>>, calls |-> <<>>]
              r == _refresh_tags(tmsu_path, pt2)
          IN  /\ current_path' = d.current_path
              /\ _current_files' = d.files
              /\ table' = d.table
              /\ _all_tags' = r.tags
              /\ tag_list' = r.tags
              /\ log' = d.log \o r.log \o <<Line("Refreshed view", "")>>
              /\ calls' = d.calls \o r.calls
    /\ round_trip' = NoRoundTrip
    /\ UNCHANGED auxVars
    /\ op' = "action_refresh"
    /\ Charge(calls')
    /\ UNCHANGED <<envVars, backendVars, dialog, selectVars, inspectorVars, workers>>

\* An "all" branch that keeps the files in the order the queries gave them.
AllTaggedFilesUnsorted(pt, pf) ==
    LET g == get_all_tags(tmsu_path, pt)
        q == [t \in Range(g.tags) |-> query_files(tmsu_path, pf[t])]
        all_files == UNION {Range(q[t].files) : t \in Range(g.tags)}
        qcalls == [i \in 1..Len(g.tags) |-> q[g.tags[i]].calls[1]]
    IN  [files |-> Existing(InOrder(DbFileOrder, all_files), disk),
         calls |-> g.calls \o qcalls]

\* The "all" branch of _load_query_results: the files of every tag the store
\* lists, as a set, sorted, then those that exist.  pf gives the result of the
\* `tmsu files <tag>` process per tag.
AllTaggedFiles(pt, pf) ==
    LET g == get_all_tags(tmsu_path, pt)
        q == [t \in Range(g.tags) |-> query_files(tmsu_path, pf[t])]
        all_files == UNION {Range(q[t].files) : t \in Range(g.tags)}
        qcalls == [i \in 1..Len(g.tags) |-> q[g.tags[i]].calls[1]]
    IN  [files |-> Existing(SortedStr(InOrder(DbFileOrder, all_files)), disk),
         calls |-> g.calls \o qcalls]

\* TMSUExplorer._load_query_results: the file list and the table are replaced by
\* the query's existing files; the tag cache is left as it is.
_load_query_results(query) ==
    /\ \/ /\ query = QAll
          /\ \E pt \in ProcTags(store, current_path), glitch \in SUBSET TagsInUse(store) :
                LET pf == [t \in TagsInUse(store) |->
                              IF t \in glitch THEN TimedOut
                              ELSE CHOOSE x \in ProcFiles(store, current_path, t) :
                                      x # TimedOut]
                    a == AllTaggedFiles(pt, pf)
                IN  /\ _current_files' = a.files
                    /\ calls' = a.calls
       \/ /\ query = QUntagged
          /\ \E pu \in ProcUntagged(store, disk, current_path) :
                LET u == get_untagged_files(tmsu_path, pu)
                IN  /\ _current_files' = Existing(u.files, disk)
                    /\ calls' = u.calls
       \/ /\ query \notin {QAll, QUntagged}
          /\ \E pq \in ProcFiles(store, current_path, query) :
                LET u == query_files(tmsu_path, pq)
                IN  /\ _current_files' = Existing(u.files, disk)
                    /\ calls' = u.calls
    /\ table' = _current_files'
    /\ log' = <<>>
    /\ UNCHANGED <<envVars, backendVars, dialog, current_path, selectVars, tagVars,
                   inspectorVars, workers>>

\* TMSUExplorer.on_query_selected: one of the two query leaves of the tree.
on_query_selected ==
    /\ Interactive
    /\ \E query \in {QAll, QUntagged} : _load_query_results(query)
    /\ round_trip' = NoRoundTrip
    /\ UNCHANGED auxVars
    /\ op' = "on_query_selected"
    /\ Charge(calls')

\* TMSUExplorer.on_tag_filter: an item of the tag list.
on_tag_filter ==
    /\ Interactive
    /\ \E tag \in Range(tag_list) : _load_query_results(tag)
    /\ round_trip' = NoRoundTrip
    /\ UNCHANGED auxVars
    /\ op' = "on_tag_filter"
    /\ Charge(calls')

\* TMSUExplorer.on_file_highlighted: a row of the table is highlighted; the file
\* is looked up in _current_files by the row's key and, when found, becomes the
\* selected file and a fetch worker is created for it.
on_file_highlighted ==
    /\ Interactive
    /\ \E row \in Range(table) :
          IF row \in Range(_current_files)
          THEN /\ selected_file' = row
               /\ workers' = StartWorker(workers, row, "select")
               /\ superseded' = (superseded \/ (workers # <<>> /\ workers[1].file # row))
          ELSE UNCHANGED <<selected_file, workers, superseded>>
    /\ round_trip' = NoRoundTrip
    /\ UNCHANGED auxVars
    /\ op' = "on_file_highlighted"
    /\ log' = <<>>
    /\ calls' = <<>>
    /\ Charge(calls')
    /\ UNCHANGED <<envVars, backendVars, dialog, listVars, tagVars, inspectorVars>>

\* TMSUExplorer._load_file_metadata: the body of the oldest pending worker.  It
\* holds no await, so it runs to its end without another handler in between.
_load_file_metadata ==
    /\ workers # <<>>
    /\ LET file_info == Head(workers).file
       IN  \E pe \in ProcExif(file_info),
              pf \in ProcFileTags(store, current_path, file_info) :
              LET metadata == get_metadata(exiftool_path, file_info \in disk, pe)
                  t == get_file_tags(tmsu_path, pf)
              IN  /\ panel' = [data |-> metadata.data, error |-> metadata.error]
                  /\ chips' = t.tags
                  /\ fetched_for' = file_info
                  /\ calls' = metadata.calls \o t.calls
    /\ workers' = Tail(workers)
    /\ UNCHANGED round_trip
    /\ UNCHANGED auxVars
    /\ op' = "_load_file_metadata"
    /\ Charge(calls')
    /\ log' = <<>>
    /\ UNCHANGED <<envVars, backendVars, dialog, listVars, selectVars, tagVars>>

\* A success branch that fetches the file again but leaves the tag cache alone.
MutationSucceededNoRebuild(msg, st, mcalls) ==
    /\ workers' = StartWorker(workers, selected_file, "mutation")
    /\ log' = <<Line(msg, "")>>
    /\ calls' = mcalls
    /\ UNCHANGED tagVars

\* The success branch of on_tag_added / on_tag_removed: the selected file is
\* fetched again and the tag cache is reloaded from the store.
MutationSucceeded(msg, st, mcalls) ==
    \E pt \in ProcTags(st, current_path) :
       LET r == _refresh_tags(tmsu_path, pt)
       IN  /\ workers' = StartWorker(workers, selected_file, "mutation")
           /\ _all_tags' = r.tags
           /\ tag_list' = r.tags
           /\ log' = <<Line(msg, "")>> \o r.log
           /\ calls' = mcalls \o r.calls

\* A failure branch that refreshes like the success branch does.
MutationFailedRefreshing(msg, error, mcalls) ==
    /\ log' = <<Line(msg, error)>>
    /\ calls' = mcalls
    /\ workers' = StartWorker(workers, selected_file, "mutation")
    /\ _all_tags' = <<>>
    /\ tag_list' = <<>>

\* The failure branch of on_tag_added / on_tag_removed: the diagnostic is logged.
MutationFailed(msg, error, mcalls) ==
    /\ log' = <<Line(msg, error)>>
    /\ calls' = mcalls
    /\ UNCHANGED <<tagVars, workers>>

\* The early return of on_tag_removed when no file is selected: nothing is logged.
ReturnSilently ==
    /\ log' = <<>>
    /\ calls' = <<>>
    /\ UNCHANGED <<store, tagVars, workers>>

\* An early return of on_tag_added that logs nothing.
ReportNothing ==
    /\ log' = <<>>
    /\ calls' = <<>>
    /\ UNCHANGED <<store, tagVars, workers>>

\* The early return of on_tag_added when no file is selected: a line is logged.
ReportNoSelection ==
    /\ log' = <<Line("No file selected", "")>>
    /\ calls' = <<>>
    /\ UNCHANGED <<store, tagVars, workers>>

\* TMSUExplorer.on_tag_added, for the TagAdded message TagEditor.on_tag_input
\* posts: the stripped input, when it is not empty.
on_tag_added(tag) ==
    IF selected_file = None
    THEN ReportNoSelection
    ELSE \E o \in ProcTag(store, disk, current_path, selected_file, SanitizeTag(tag)) :
            LET a == add_tag(tmsu_path, tag, store, o)
            IN  /\ store' = a.store
                /\ IF a.success
                   THEN MutationSucceeded("Added tag", a.store, a.calls)
                   ELSE MutationFailed("Failed to add tag", a.error, a.calls)

\* TagEditor.on_tag_input followed by TMSUExplorer.on_tag_added.
on_tag_input ==
    /\ Interactive
    /\ \E raw \in RawInputs :
          /\ Strip(raw) # <<>>
          /\ on_tag_added(Strip(raw))
          /\ round_trip' = IF log' # <<>> /\ log'[1].msg = "Added tag"
                           THEN [file |-> selected_file,
                                 tag |-> SanitizeTag(Strip(raw)),
                                 store0 |-> store,
                                 cache0 |-> _all_tags,
                                 phase |-> "added"]
                           ELSE NoRoundTrip
    /\ UNCHANGED auxVars
    /\ op' = "on_tag_added"
    /\ Charge(calls')
    /\ UNCHANGED <<disk, deletes, backendVars, dialog, listVars, selectVars, inspectorVars>>

\* TMSUExplorer.on_tag_removed, for the TagRemoved message a click on a chip posts.
on_tag_removed(tag) ==
    IF selected_file = None
    THEN ReturnSilently
    ELSE \E o \in ProcUntag(store, current_path, selected_file, tag) :
            LET a == remove_tag(tmsu_path, store, o)
            IN  /\ store' = a.store
                /\ IF a.success
                   THEN MutationSucceeded("Removed tag", a.store, a.calls)
                   ELSE MutationFailed("Failed to remove tag", a.error, a.calls)

\* TagChip.on_click and TagEditor.on_tag_remove, then TMSUExplorer.on_tag_removed.
on_tag_remove ==
    /\ Interactive
    /\ \E tag \in Range(chips) :
          /\ on_tag_removed(tag)
          /\ round_trip' = IF /\ round_trip.phase = "added"
                              /\ round_trip.file = selected_file
                              /\ round_trip.tag = tag
                              /\ log' # <<>>
                              /\ log'[1].msg = "Removed tag"
                           THEN [round_trip EXCEPT !.phase = "removed"]
                           ELSE NoRoundTrip
    /\ UNCHANGED auxVars
    /\ op' = "on_tag_removed"
    /\ Charge(calls')
    /\ UNCHANGED <<disk, deletes, backendVars, dialog, listVars, selectVars, inspectorVars>>

\* The world: a file is deleted from disk behind the program's back.
FsDelete ==
    /\ deletes < MaxDeletes
    /\ deletes' = deletes + 1
    /\ \E f \in disk : disk' = disk \ {f}
    /\ glitches' = glitches
    /\ round_trip' = NoRoundTrip
    /\ UNCHANGED auxVars
    /\ op' = "world"
    /\ log' = <<>>
    /\ calls' = <<>>
    /\ UNCHANGED <<store, backendVars, dialog, listVars, selectVars, tagVars,
                   inspectorVars, workers>>

Next ==
    \/ on_mount
    \/ _handle_tool_paths
    \/ on_directory_selected
    \/ on_query_selected
    \/ on_tag_filter
    \/ on_file_highlighted
    \/ _load_file_metadata
    \/ on_tag_input
    \/ on_tag_remove
    \/ action_refresh

Spec == Init /\ [][Next]_vars

\* The tag names the store lists in a scope directory, and a file's tags there.
StoreTagList(st, cwd) == IF HasDb(cwd) THEN TagsInUse(st) ELSE {}
StoreFileTags(st, cwd, f) == IF HasDb(cwd) THEN st[f] ELSE {}

\* The sorted tag list of a store in the current scope, as a rebuilt cache holds it.
SortedTagList(st) == SortedStr(InOrder(DbTagOrder, StoreTagList(st, current_path)))

(***************************************************************************)
(* The navigation tree on its own (SpecTree): SourceTree's handlers and    *)
(* directories created and removed behind its back.                        *)
(***************************************************************************)

\* The sum of a sequence of numbers.
RECURSIVE SumSeq(_)
SumSeq(seq) == IF seq = <<>> THEN 0 ELSE Head(seq) + SumSeq(Tail(seq))

\* A sequence of n zeros.
Zeros(n) == [i \in 1..n |-> 0]

\* SourceTree.on_mount: the File System branch with the home directory and, as
\* it differs, the working directory; the queries branch with its two leaves.
SourceTree_on_mount ==
    /\ nodes = <<RootNode>>
    /\ nodes' = <<RootNode,
                  TreeNode(1, <<"f", "i", "l", "e", "s", "y", "s", "t", "e", "m">>, TRUE),
                  _add_directory_node(2, Home)>>
                 \o (IF DirW # Home THEN <<_add_directory_node(2, DirW)>> ELSE <<>>)
                 \o <<TreeNode(1, <<"q", "u", "e", "r", "i", "e", "s">>, TRUE),
                      TreeNode(5, <<"q", "u", "e", "r", "y", ":">> \o QAll, FALSE),
                      TreeNode(5, <<"q", "u", "e", "r", "y", ":">> \o QUntagged, FALSE)>>
    /\ scans' = Zeros(Len(nodes'))
    /\ expansions' = Zeros(Len(nodes'))
    /\ UNCHANGED <<fs_dirs, fs_changes, _expanded_paths, tags_stdout, posted, callVars, appVars>>

\* A tree that populates a directory node on every expansion.
AlwaysPopulate(path) == TRUE

\* `path not in self._expanded_paths`
NotYetExpanded(path) == path \notin _expanded_paths

\* SourceTree.on_tree_node_expanded for node n: a directory node whose path is
\* not in _expanded_paths is recorded there and populated.
on_tree_node_expanded(n) ==
    LET data == nodes[n].data
        path == SubSeq(data, 5, Len(data))
    IN  /\ IF StartsWith(data, <<"d", "i", "r", ":">>) /\ NotYetExpanded(path)
           THEN /\ _expanded_paths' = _expanded_paths \cup {path}
                /\ nodes' = nodes \o _populate_directory(n, path)
                /\ scans' = [scans EXCEPT ![n] = @ + 1] \o Zeros(Len(nodes') - Len(nodes))
           ELSE UNCHANGED <<_expanded_paths, nodes, scans>>
        /\ expansions' = [expansions EXCEPT ![n] = @ + 1]
                         \o Zeros(Len(nodes') - Len(nodes))

\* The user expands a node that can be expanded, for the first time or again
\* after collapsing it.
NodeExpanded ==
    /\ Len(nodes) > 1
    /\ SumSeq(expansions) < MaxExpansions
    /\ \E n \in 1..Len(nodes) :
          /\ nodes[n].allow_expand
          /\ on_tree_node_expanded(n)
    /\ UNCHANGED <<fs_dirs, fs_changes, tags_stdout, posted, callVars, appVars>>

\* The world: a directory is created.
MkDir ==
    /\ fs_changes < MaxFsChanges
    /\ fs_changes' = fs_changes + 1
    /\ \E d \in TransientDirs \ fs_dirs : fs_dirs' = fs_dirs \cup {d}
    /\ UNCHANGED <<nodes, _expanded_paths, scans, expansions, tags_stdout, posted, callVars, appVars>>

\* The world: a directory is removed.
RmDir ==
    /\ fs_changes < MaxFsChanges
    /\ fs_changes' = fs_changes + 1
    /\ \E d \in TransientDirs \cap fs_dirs : fs_dirs' = fs_dirs \ {d}
    /\ UNCHANGED <<nodes, _expanded_paths, scans, expansions, tags_stdout, posted, callVars, appVars>>

\* A selection handler that takes any node's data for a directory.
MessageForAnyData(data) == [message |-> "DirectorySelected", arg |-> data]

\* SourceTree.on_tree_node_selected: the message posted for a node's data.
MessageFor(data) ==
    IF StartsWith(data, <<"d", "i", "r", ":">>)
    THEN [message |-> "DirectorySelected", arg |-> SubSeq(data, 5, Len(data))]
    ELSE IF StartsWith(data, <<"q", "u", "e", "r", "y", ":">>)
    THEN [message |-> "QuerySelected", arg |-> SubSeq(data, 7, Len(data))]
    ELSE [message |-> "none", arg |-> <<>>]

\* The user selects a node of the tree.
on_tree_node_selected ==
    /\ Len(nodes) > 1
    /\ \E n \in 1..Len(nodes) :
          LET msg == MessageFor(nodes[n].data)
          IN  posted' = [node |-> n, message |-> msg.message, arg |-> msg.arg]
    /\ UNCHANGED <<fs_dirs, fs_changes, nodes, _expanded_paths, scans, expansions,
                   tags_stdout, callVars, appVars>>

NextTree ==
    \/ SourceTree_on_mount
    \/ on_tree_node_selected
    \/ NodeExpanded
    \/ MkDir
    \/ RmDir

\* The tree is mounted in an application that found both tools.
InitTreeOnly == Init /\ tmsu_path = "tmsu" /\ exiftool_path = "exiftool"

SpecTree == InitTreeOnly /\ [][NextTree]_vars

\* The path of a directory node.
NodePath(n) == SubSeq(nodes[n].data, 5, Len(nodes[n].data))

\* C25: a directory node whose listing fails when it is populated gets one
\* child, an error leaf, and no other; an error leaf cannot be expanded and is
\* the only child of its parent; selecting it posts no message and leaves the
\* scope, the file list and the table as they are.
C25_ErrorLeaf ==
    /\ [](\A n \in 1..Len(nodes) :
            nodes[n].data = ErrorData =>
               /\ ~nodes[n].allow_expand
               /\ Children(nodes, nodes[n].parent) = <<n>>)
    /\ [][\A n \in 1..Len(nodes) :
             (scans'[n] > scans[n] /\ IterDir(fs_dirs, disk, NodePath(n)).error # None) =>
                /\ Len(Children(nodes', n)) = 1
                /\ nodes'[Children(nodes', n)[1]] = TreeNode(n, ErrorData, FALSE)]_vars
    /\ [][(posted' # posted /\ nodes[posted'.node].data = ErrorData) =>
             /\ posted'.message = "none"
             /\ UNCHANGED <<current_path, _current_files, table>>]_vars

\* C25 witness: a directory that was removed after its node was created was
\* expanded, and the error leaf it got was selected.
C25_Witness ==
    /\ posted.node # 0
    /\ nodes[posted.node].data = ErrorData
    /\ posted.message = "none"
    /\ NodePath(nodes[posted.node].parent) = DirS

\* C29: every directory node that has been expanded has had its directory
\* listed for it.
C29_PopulatedPerNode ==
    \A n \in 1..Len(nodes) :
        (StartsWith(nodes[n].data, <<"d", "i", "r", ":">>) /\ expansions[n] >= 1) =>
            scans[n] >= 1

\* C7: a directory node's directory is listed for it at most once, and from the
\* node's first expansion on no later expansion, of this node or of another,
\* lists its directory again or changes its children, whatever has been created
\* or removed on disk in between.
C7_PopulatedOnce ==
    /\ [](\A n \in 1..Len(nodes) : scans[n] <= 1)
    /\ [][\A n \in 1..Len(nodes) :
             expansions[n] >= 1 =>
                /\ scans'[n] = scans[n]
                /\ Children(nodes', n) = Children(nodes, n)
                /\ \A c \in Range(Children(nodes, n)) : nodes'[c] = nodes[c]]_vars

\* C7 witness: the home node was expanded, listing three subdirectories, a
\* fourth was created on disk, and the node was expanded again: it was listed
\* once and still has its three children.
C7_Witness ==
    /\ Len(nodes) >= 3
    /\ nodes[3].data = DirData(Home)
    /\ expansions[3] >= 2
    /\ scans[3] = 1
    /\ HomeA \in fs_dirs
    /\ Len(Children(nodes, 3)) = 3
    /\ [i \in 1..3 |-> nodes[Children(nodes, 3)[i]].data]
          = <<DirData(HomeB), DirData(DirW), DirData(DirX)>>

(***************************************************************************)
(* The tag cache over arbitrary tool output (SpecTagLines): get_all_tags   *)
(* and _refresh_tags applied to what a `tmsu tags` process may print.      *)
(***************************************************************************)

\* The lines a `tmsu tags` process may print, a blank and an indented one among
\* them, and how many of them.
TagLines == {<<"a">>, <<"b">>, <<" ", "a">>, <<>>}
MaxLines == 3
TagOutputs == {PrintLines(ls) : ls \in UNION {[1..n -> TagLines] : n \in 0..MaxLines}}

InitTagLines ==
    /\ Init
    /\ tmsu_path = "tmsu"
    /\ exiftool_path = "exiftool"

\* A `tmsu tags` process exits with status 0 after printing some lines.
TagsPrinted ==
    /\ tags_stdout' \in TagOutputs
    /\ UNCHANGED <<treeVars, callVars, appVars>>

\* TMSUExplorer._refresh_tags on the output of that process.
RefreshTags ==
    /\ LET r == _refresh_tags(tmsu_path, Exit(0, tags_stdout, ""))
       IN  /\ _all_tags' = r.tags
           /\ tag_list' = r.tags
           /\ log' = r.log
           /\ calls' = r.calls
    /\ op' = "_refresh_tags"
    /\ UNCHANGED <<envVars, backendVars, dialog, listVars, selectVars, inspectorVars,
                   workers, round_trip, glitches, auxVars>>

NextTagLines ==
    \/ TagsPrinted
    \/ RefreshTags

SpecTagLines == InitTagLines /\ [][NextTagLines]_vars

\* C5: the tag cache is in strictly ascending order, hence sorted and without a
\* repeated name, whatever lines the `tmsu tags` process printed.
C5_SortedDeduplicated ==
    \A i \in 1..(Len(_all_tags) - 1) : StrLess(_all_tags[i], _all_tags[i + 1])

(***************************************************************************)
(* File lists of queries over arbitrary databases (SpecQuery)              *)
(***************************************************************************)

\* The program starts on any database over the two files and the two tag names.
InitQuery ==
    /\ \E database \in [AllFiles -> SUBSET TagNames] : InitWith(database)
    /\ tmsu_path = "tmsu"
    /\ exiftool_path = "exiftool"

NextQuery ==
    \/ on_mount
    \/ on_directory_selected
    \/ on_query_selected
    \/ on_tag_filter
    \/ FsDelete

SpecQuery == InitQuery /\ [][NextQuery]_vars

\* The last handler resolved the "all tagged files" query.
AllTaggedResolved ==
    /\ op = "on_query_selected"
    /\ calls # <<>>
    /\ calls[1].cmd = "tags"

\* C8: after the "all tagged files" query is resolved, the file list holds
\* exactly the files that exist on disk and that some `tmsu files <tag>` call
\* of the handler returned, one call having been made per tag that its `tmsu
\* tags` call listed; the list is in strictly ascending path order, so no path
\* is in it twice, and the table shows the same list.
C8_AllTagged ==
    AllTaggedResolved =>
        LET listed == IF calls[1].ok THEN SortedTagList(store) ELSE <<>>
            returned == UNION {IF calls[1 + i].ok THEN FilesWith(store, listed[i]) ELSE {}
                               : i \in 1..Len(listed)}
        IN  /\ Len(calls) = 1 + Len(listed)
            /\ \A i \in 1..Len(listed) : calls[1 + i].cmd = "files"
            /\ Range(_current_files) = returned \cap disk
            /\ \A i \in 1..(Len(_current_files) - 1) :
                  StrLess(_current_files[i], _current_files[i + 1])
            /\ table = _current_files

\* C8 witness: both tags are in use, one file holds both, every call was
\* answered and both files are listed.
C8_Witness ==
    /\ AllTaggedResolved
    /\ Len(calls) = 3
    /\ \A i \in 1..3 : calls[i].ok
    /\ store[F1] = TagNames
    /\ store[F2] # {}
    /\ _current_files = <<F1, F2>>

\* The last handler resolved a tag query or the "untagged" query, and its one
\* process succeeded.
TagOrUntaggedResolved ==
    /\ op \in {"on_tag_filter", "on_query_selected"}
    /\ Len(calls) = 1
    /\ calls[1].cmd \in {"files", "untagged"}
    /\ calls[1].ok

\* The file list holds exactly the paths the store returned that exist on disk.
ExistingOfReturned ==
    IF calls[1].cmd = "untagged"
    THEN Range(_current_files) = {f \in disk : store[f] = {}}
    ELSE \E t \in Range(tag_list) : Range(_current_files) = FilesWith(store, t) \cap disk

\* C18: after a tag query or the "untagged" query is resolved, the file list
\* holds exactly the paths the store returned that exist on disk, and it is in
\* ascending order of path.
C18_ExistingAndSorted ==
    TagOrUntaggedResolved =>
        /\ ExistingOfReturned
        /\ \A i \in 1..(Len(_current_files) - 1) :
              StrLess(_current_files[i], _current_files[i + 1])

\* The last handler selected a directory and could list it.
DirectoryListed ==
    /\ op = "on_directory_selected"
    /\ IterDir(fs_dirs, disk, current_path).error = None

\* C19: after a directory is selected and listed, the file list holds exactly
\* the regular files directly in it whose names do not start with ".", no
\* directory among them, in ascending order of their lower-cased names; the
\* table shows the same list.
C19_DirectoryListing ==
    DirectoryListed =>
        /\ Range(_current_files) =
              {f \in disk \cup {HiddenFile} : Parent(f) = current_path /\ ~IsHidden(f)}
        /\ Range(_current_files) \cap fs_dirs = {}
        /\ \A i \in 1..(Len(_current_files) - 1) :
              StrLess(Lower(PathName(_current_files[i])),
                      Lower(PathName(_current_files[i + 1])))
        /\ table = _current_files

\* C19 witness: DirW, which holds the files B and a, a hidden file and a
\* subdirectory, is listed as a, B.
C19_Witness ==
    /\ DirectoryListed
    /\ current_path = DirW
    /\ DirS \in fs_dirs
    /\ _current_files = <<F2, F1>>

(***************************************************************************)
(* Tags named like the query leaves (SpecTagFilter)                        *)
(***************************************************************************)

\* The names a tag may have here: an ordinary one and those of the two leaves.
LeafLikeTagNames == {TagA, QAll, QUntagged}

\* The program starts on any database over the two files and these names.
InitTagFilter ==
    /\ \E database \in [AllFiles -> SUBSET LeafLikeTagNames] : InitWith(database)
    /\ tmsu_path = "tmsu"
    /\ exiftool_path = "exiftool"

NextTagFilter ==
    \/ on_mount
    \/ on_tag_filter
    \/ FsDelete

SpecTagFilter == InitTagFilter /\ [][NextTagFilter]_vars

\* C11: after an item of the tag list is selected and every process of the
\* handler was answered, the file list holds exactly the files on disk that
\* hold some tag t of the tag list, the one selected: the selection resolved
\* as the tag query of t, whatever t is called.
C11_TagFilterIsTagQuery ==
    (op = "on_tag_filter" /\ \A i \in 1..Len(calls) : calls[i].ok) =>
        \E t \in Range(tag_list) : Range(_current_files) = FilesWith(store, t) \cap disk

(***************************************************************************)
(* The Backend's methods called on their own (SpecBackend)                 *)
(***************************************************************************)

\* The characters of a raw tag and its greatest length.
RawChars == {" ", "\t", "\n", "a"}
MaxRawLen == 3
RawTags == UNION {[1..n -> RawChars] : n \in 0..MaxRawLen}

\* A file and a tag with a colon in their names.
ColonFile == DirW \o <<"/", "c", ":", "x">>
ColonTag == <<"b", ":", "c">>

\* The tag lists `tmsu tags <file>` may print, up to MaxPrinted tags.
MaxPrinted == 2
PrintedLists == UNION {[1..n -> {TagA, ColonTag}] : n \in 0..MaxPrinted}

\* The database of these runs: F1 holds TagA.
BackendDatabase == [f \in AllFiles |-> IF f = F1 THEN {TagA} ELSE {}]

Request(method, file, tag, printed, prefixed) ==
    [op |-> method, file |-> file, tag |-> tag, printed |-> printed, prefixed |-> prefixed,
     proc |-> TimedOut]

\* What subprocess.run may come to: exits with code 0 and other codes, with and
\* without output and diagnostic, the timeout, a missing executable and another
\* exception.
GatewayOutcomes ==
    {Exit(0, <<"a", "\n">>, ""), Exit(0, <<>>, ErrLocked), Exit(0, <<>>, ""),
     Exit(1, <<>>, ErrNoDb), Exit(2, <<" ", "a">>, ""), TimedOut, NotStarted,
     Raised(ErrOs)}

\* The calls made: each method, with the arguments that matter to it.
Requests ==
    {Request("get_all_tags", <<>>, <<>>, <<>>, FALSE),
     Request("get_untagged_files", <<>>, <<>>, <<>>, FALSE)}
    \cup {Request("get_file_tags", f, <<>>, printed, prefixed) :
             f \in {F1, ColonFile}, printed \in PrintedLists, prefixed \in BOOLEAN}
    \cup {Request("add_tag", F1, tag, <<>>, FALSE) : tag \in RawTags}
    \cup {Request("remove_tag", F1, tag, <<>>, FALSE) : tag \in TagNames}
    \cup {Request("query_files", <<>>, tag, <<>>, FALSE) : tag \in TagNames}
    \cup {Request("init_database", d, <<>>, <<>>, FALSE) : d \in Dirs}
    \cup {[Request("_run_command", <<>>, <<>>, <<>>, FALSE) EXCEPT !.proc = p] :
             p \in GatewayOutcomes}
    \cup {Request("get_metadata", f, <<>>, <<>>, FALSE) : f \in {F1, ColonFile}}

InitBackend ==
    /\ InitApp(BackendDatabase)
    /\ request \in Requests
    /\ response = NoResponse

\* What `tmsu tags` may come to: the outcomes of the store, an exit with no
\* output, the diagnostics of a missing and of a locked database, and a tool that
\* is set but cannot be started.
TagsOutcomes ==
    ProcTags(store, DirW) \cup
    {Exit(0, <<>>, ""), Exit(1, <<>>, ErrNoDb), Exit(1, <<>>, ErrNoDbCapitals),
     Exit(1, <<>>, ErrLocked), NotStarted}

\* How any tmsu process may fail whatever the database holds: a non-zero exit
\* with a diagnostic, a non-zero exit with output and no diagnostic, an
\* executable that cannot be started, and another exception of subprocess.run.
ProcessFailures ==
    {Exit(1, <<>>, ErrLocked), Exit(2, <<" ", "a">>, ""), NotStarted, Raised(ErrOs)}

\* `tmsu tags <file>` printing the request's tag list in the request's form.
FileTagsOutput(req) ==
    LET line == Join(req.printed, <<" ">>)
    IN  IF req.prefixed THEN Exit(0, req.file \o <<":", " ">> \o line \o <<"\n">>, "")
        ELSE Exit(0, line \o <<"\n">>, "")

\* `tmsu init` in cwd: refused where a database exists.
ProcInit(cwd) ==
    {TimedOut} \cup
    (IF HasDb(cwd) THEN {Exit(1, <<>>, ErrDbExists)} ELSE {Exit(0, <<>>, "")})

\* What a direct call leaves alone.
CallFrame ==
    UNCHANGED <<disk, deletes, backendVars, dialog, listVars, selectVars, tagVars,
                inspectorVars, workers, round_trip, glitches, log, treeVars,
                tags_stdout, request>>

Call_get_all_tags ==
    /\ op = "__init__" /\ request.op = "get_all_tags"
    /\ \E proc \in TagsOutcomes :
          LET g == get_all_tags(tmsu_path, proc)
          IN  /\ response' = [success |-> g.success, error |-> "", items |-> g.tags,
                              argv |-> <<>>]
              /\ calls' = g.calls
    /\ op' = request.op
    /\ UNCHANGED store
    /\ CallFrame

Call_get_file_tags ==
    /\ op = "__init__" /\ request.op = "get_file_tags"
    /\ \E proc \in {TimedOut, FileTagsOutput(request)} \cup ProcessFailures :
          LET g == get_file_tags(tmsu_path, proc)
          IN  /\ response' = [success |-> g.success, error |-> "", items |-> g.tags,
                              argv |-> <<>>]
              /\ calls' = g.calls
    /\ op' = request.op
    /\ UNCHANGED store
    /\ CallFrame

Call_add_tag ==
    /\ op = "__init__" /\ request.op = "add_tag"
    /\ \E o \in ProcTag(store, disk, DirW, request.file, SanitizeTag(request.tag)) :
          LET a == add_tag(tmsu_path, request.tag, store, o)
          IN  /\ response' = [success |-> a.success, error |-> a.error, items |-> <<>>,
                              argv |-> IF a.calls = <<>> THEN <<>>
                                       ELSE SanitizeTag(request.tag)]
              /\ calls' = a.calls
              /\ store' = a.store
    /\ op' = request.op
    /\ CallFrame

Call_remove_tag ==
    /\ op = "__init__" /\ request.op = "remove_tag"
    /\ \E o \in ProcUntag(store, DirW, request.file, request.tag) :
          LET a == remove_tag(tmsu_path, store, o)
          IN  /\ response' = [success |-> a.success, error |-> a.error, items |-> <<>>,
                              argv |-> IF a.calls = <<>> THEN <<>> ELSE request.tag]
              /\ calls' = a.calls
              /\ store' = a.store
    /\ op' = request.op
    /\ CallFrame

Call_query_files ==
    /\ op = "__init__" /\ request.op = "query_files"
    /\ \E proc \in ProcFiles(store, DirW, request.tag) \cup ProcessFailures :
          LET q == query_files(tmsu_path, proc)
          IN  /\ response' = [success |-> q.success, error |-> "", items |-> q.files,
                              argv |-> <<>>]
              /\ calls' = q.calls
    /\ op' = request.op
    /\ UNCHANGED store
    /\ CallFrame

Call_get_untagged_files ==
    /\ op = "__init__" /\ request.op = "get_untagged_files"
    /\ \E proc \in ProcUntagged(store, disk, DirW) \cup ProcessFailures :
          LET q == get_untagged_files(tmsu_path, proc)
          IN  /\ response' = [success |-> q.success, error |-> "", items |-> q.files,
                              argv |-> <<>>]
              /\ calls' = q.calls
    /\ op' = request.op
    /\ UNCHANGED store
    /\ CallFrame

Call_init_database ==
    /\ op = "__init__" /\ request.op = "init_database"
    /\ \E proc \in ProcInit(request.file) :
          LET a == init_database(tmsu_path, proc)
          IN  /\ response' = [success |-> a.success, error |-> a.error, items |-> <<>>,
                              argv |-> <<>>]
              /\ calls' = a.calls
    /\ op' = request.op
    /\ UNCHANGED store
    /\ CallFrame

\* What exiftool may come to for a file: its JSON array of one object, an empty
\* array, output that is not JSON, no output, a failure, or the timeout.
ExifOutcomes(f) ==
    ProcExif(f) \cup
    {Exit(0, JsonEmpty, ""), Exit(0, <<"k">>, ""), Exit(0, <<>>, ""),
     Exit(1, <<>>, ErrNoFile)}

\* get_metadata on its own; of the request's files only F1 is on disk.
Call_get_metadata ==
    /\ op = "__init__" /\ request.op = "get_metadata"
    /\ \E proc \in ExifOutcomes(request.file) :
          LET metadata == get_metadata(exiftool_path, request.file \in disk, proc)
          IN  /\ response' = [success |-> metadata.data, error |-> metadata.error,
                              items |-> <<>>, argv |-> <<>>]
              /\ calls' = metadata.calls
    /\ op' = request.op
    /\ UNCHANGED store
    /\ CallFrame

\* _run_command on its own: the request's process is the one that runs.
Call__run_command ==
    /\ op = "__init__" /\ request.op = "_run_command"
    /\ LET r == _run_command(request.proc)
       IN  /\ response' = [success |-> r.success, error |-> r.stderr, items |-> r.stdout,
                           argv |-> <<>>]
           /\ calls' = <<Call("run", r)>>
    /\ op' = request.op
    /\ UNCHANGED store
    /\ CallFrame

NextBackend ==
    \/ Call__run_command
    \/ Call_get_metadata
    \/ Call_get_all_tags
    \/ Call_get_file_tags
    \/ Call_add_tag
    \/ Call_remove_tag
    \/ Call_query_files
    \/ Call_get_untagged_files
    \/ Call_init_database

SpecBackend == InitBackend /\ [][NextBackend]_vars

\* C23: _run_command returns for every outcome of the process; it returns
\* success exactly when the process exited with code 0; for a non-zero exit it
\* returns the process's diagnostic output, for a timeout, a missing
\* executable and any other exception a diagnostic that is not empty.
C23_GatewayReturns ==
    op = "_run_command" =>
        LET p == request.proc
        IN  /\ response.success <=> (p.kind = "exit" /\ p.code = 0)
            /\ p.kind = "exit" => response.error = p.stderr
            /\ p.kind = "timeout" => response.error = ErrTimeout
            /\ p.kind = "notfound" => response.error = ErrNotFound
            /\ p.kind = "raised" => response.error = ErrOs
            /\ p.kind # "exit" => response.error # "" /\ response.items = <<>>

\* C23 witness: an exception other than the timeout and the missing executable
\* came back as a failure with its text.
C23_Witness ==
    /\ op = "_run_command"
    /\ request.proc.kind = "raised"
    /\ ~response.success
    /\ response.error = ErrOs

\* C24: what get_metadata returns never has both data and an error; it has
\* an error and no data when the tool is unset, when the file is missing, when
\* the process fails, prints nothing, prints an empty list or prints what
\* does not parse; for a missing file, as for an unset tool, no process runs.
C24_DataOrError ==
    op = "get_metadata" =>
        /\ ~(response.success /\ response.error # None)
        /\ exiftool_path = None =>
              response.error = "ExifTool not available" /\ calls = <<>>
        /\ (exiftool_path # None /\ request.file \notin disk) =>
              response.error = "File not found" /\ calls = <<>>
        /\ (calls # <<>> /\ ~calls[1].ok) => response.error # None
        /\ response.success => (calls # <<>> /\ calls[1].ok)

\* C24 witness: the file is missing; the error is set and no process ran.
C24_Witness ==
    /\ op = "get_metadata"
    /\ exiftool_path # None
    /\ request.file \notin disk
    /\ response.error = "File not found"
    /\ ~response.success
    /\ calls = <<>>

\* C12: add_tag called with a tag that is empty or all whitespace fails, runs
\* no process and leaves the database as it was; with the tool path set, the
\* failure is the validation failure "Empty tag name".
C12_BlankTagRejected ==
    (op = "add_tag" /\ \A i \in 1..Len(request.tag) : IsSpace(request.tag[i])) =>
        /\ ~response.success
        /\ calls = <<>>
        /\ store = BackendDatabase
        /\ tmsu_path # None => response.error = "Empty tag name"

\* C12 witness: a tag of a space, a tab and a line feed was rejected as empty.
C12_Witness ==
    /\ op = "add_tag"
    /\ request.tag = <<" ", "\t", "\n">>
    /\ tmsu_path # None
    /\ response.error = "Empty tag name"
    /\ calls = <<>>

\* C13: whatever the raw tag, the tag that add_tag hands to the `tmsu tag`
\* process holds no whitespace character.
C13_NoWhitespaceHandedOver ==
    (op = "add_tag" /\ calls # <<>>) =>
        \A i \in 1..Len(response.argv) : ~IsSpace(response.argv[i])

\* C14: whenever the `tmsu tags <file>` process succeeded, get_file_tags
\* returns the tag list the process printed, in the printed order, in the bare
\* form and in the form prefixed by the file's name alike.
C14_BothFormsParse ==
    (op = "get_file_tags" /\ calls # <<>> /\ calls[1].ok) =>
        /\ response.success
        /\ response.items = request.printed

\* C31: with the tool path set, get_file_tags, query_files and
\* get_untagged_files run one process and return success whatever became of
\* it; when the process did not succeed (non-zero exit, timeout, executable not
\* found, another exception) the list returned is empty, so the result is the
\* one of a process that succeeded and printed nothing.
C31_FailureReadsAsEmpty ==
    (op \in {"get_file_tags", "query_files", "get_untagged_files"} /\ tmsu_path # None) =>
        /\ Len(calls) = 1
        /\ response.success
        /\ ~calls[1].ok => response.items = <<>>
        /\ response.items = <<>> =>
              response = [success |-> TRUE, error |-> "", items |-> <<>>, argv |-> <<>>]

\* C31 witness: `tmsu untagged` could not be started, and the listing came back
\* as a success with no file.
C31_Witness ==
    /\ op = "get_untagged_files"
    /\ calls # <<>> /\ ~calls[1].ok
    /\ calls[1].stderr = ErrNotFound
    /\ response.success
    /\ response.items = <<>>

\* C15: with the tool path unset, get_all_tags returns success with no tag and
\* runs no process.
C15_AbsentToolListsNothing ==
    (op = "get_all_tags" /\ tmsu_path = None) =>
        /\ response.success
        /\ response.items = <<>>
        /\ calls = <<>>

\* C16: with the tool path unset, every method of the Backend that wraps the
\* tag store returns a failure with an empty payload, runs no process and
\* leaves the database as it was; the methods that return a diagnostic return
\* "TMSU not available".
C16_ToolUnavailable ==
    (/\ op \in {"get_all_tags", "get_file_tags", "add_tag", "remove_tag", "query_files",
                 "get_untagged_files", "init_database"}
     /\ tmsu_path = None) =>
        /\ ~response.success
        /\ response.items = <<>>
        /\ calls = <<>>
        /\ store = BackendDatabase
        /\ op \in {"add_tag", "remove_tag", "init_database"} =>
              response.error = "TMSU not available"

\* C16 witness: a query was refused for want of the tool.
C16_Witness ==
    /\ op = "query_files"
    /\ tmsu_path = None
    /\ ~response.success
    /\ calls = <<>>

\* C17: when the `tmsu tags` process did not succeed, get_all_tags returns no
\* tag, and it returns success exactly when the diagnostic carries the "no
\* database" marker, in whatever case: a non-zero exit without the marker, a
\* timeout and an executable that is not found are failures.
C17_NoDatabaseIsEmptySuccess ==
    (op = "get_all_tags" /\ calls # <<>> /\ ~calls[1].ok) =>
        /\ response.items = <<>>
        /\ response.success <=> calls[1].stderr \in {ErrNoDb, ErrNoDbCapitals}

\* C17 witness: the missing database was reported with capitals, and taken as
\* success with no tag.
C17_Witness ==
    /\ op = "get_all_tags"
    /\ calls # <<>> /\ ~calls[1].ok
    /\ calls[1].stderr = ErrNoDbCapitals
    /\ response.success
    /\ response.items = <<>>

(***************************************************************************)
(* The event loop while a fetch waits for its tool (SpecLoop)              *)
(***************************************************************************)

\* _load_file_metadata is an `async def` worker without an await: it runs on
\* the event loop's thread, and subprocess.run keeps that thread until the
\* process exits or is killed at the timeout.  No handler runs meanwhile.
InSubprocess == op = "subprocess.run"

\* The pending worker starts and reaches subprocess.run of its first tool.
WorkerEntersSubprocess ==
    /\ workers # <<>>
    /\ ~InSubprocess
    /\ op' = "subprocess.run"
    /\ log' = <<>>
    /\ calls' = <<>>
    /\ UNCHANGED <<envVars, backendVars, dialog, listVars, selectVars, tagVars,
                   inspectorVars, workers, round_trip, glitches, auxVars>>

\* The processes have returned: the worker applies what it fetched and ends.
WorkerLeavesSubprocess == InSubprocess /\ _load_file_metadata

InitLoop ==
    /\ Init
    /\ tmsu_path = "tmsu"
    /\ exiftool_path = "exiftool"

NextLoop ==
    \/ on_mount
    \/ on_directory_selected
    \/ on_query_selected
    \/ on_file_highlighted
    \/ WorkerEntersSubprocess
    \/ WorkerLeavesSubprocess

SpecLoop == InitLoop /\ [][NextLoop]_vars

\* C21: while a fetch waits for its external tool, the program can still
\* handle a selection of a file and a selection of a directory.
C21_LoopAcceptsEvents ==
    InSubprocess => (ENABLED on_file_highlighted /\ ENABLED on_directory_selected)

(***************************************************************************)
(* Properties of the explorer (Spec)                                       *)
(***************************************************************************)

\* C1: single flight of the metadata-and-tags fetch.  At most one fetch is
\* pending, it is the one for the selected file, and whenever a fetch has just
\* applied its results to the metadata panel and the tag chips, they are the
\* results for the file that is selected at that moment: a fetch started for an
\* earlier selection never writes.
C1_SingleFlight ==
    /\ Len(workers) <= 1
    /\ workers # <<>> => workers[1].file = selected_file
    /\ op = "_load_file_metadata" => fetched_for = selected_file

\* C1 witness: a pending fetch was replaced by the fetch for another file, and a
\* fetch has just applied its results.
C1_Witness ==
    /\ superseded
    /\ op = "_load_file_metadata"
    /\ fetched_for = selected_file
    /\ workers = <<>>

\* The log lines a failed tag mutation writes.
FailureLines == {"Failed to add tag", "Failed to remove tag"}

\* C2: a tag add or remove that fails, in the tag store or before it is asked,
\* is reported with the diagnostic of the failure and changes no cached state:
\* the tag cache and the tag list, the file list and the table, the selected
\* file, the chips and the metadata panel and the scope directory are as before,
\* and no fetch is started or cancelled.
C2_FailedMutationFrame ==
    [][(/\ op' \in {"on_tag_added", "on_tag_removed"}
        /\ log' # <<>>
        /\ log'[1].msg \in FailureLines)
       => /\ UNCHANGED <<_all_tags, tag_list, _current_files, table, selected_file,
                         chips, panel, fetched_for, current_path, workers>>
          /\ Len(log') = 1
          /\ log'[1].detail = (IF calls' = <<>> THEN "TMSU not available"
                               ELSE calls'[1].stderr)]_vars

\* C2 witness: a remove has just failed while chips and a tag cache are shown.
C2_Witness ==
    /\ op = "on_tag_removed"
    /\ log # <<>>
    /\ log[1].msg = "Failed to remove tag"
    /\ chips # <<>>
    /\ _all_tags # <<>>
    /\ selected_file # None

\* The log lines a successful tag mutation writes first.
SuccessLines == {"Added tag", "Removed tag"}

\* The step is the completion of a successful tag mutation.
MutationSuccessStep ==
    /\ op' \in {"on_tag_added", "on_tag_removed"}
    /\ log' # <<>>
    /\ log'[1].msg \in SuccessLines

\* The step is the run of a fetch that a successful tag mutation started.
RefetchStep ==
    /\ workers # <<>>
    /\ workers[1].origin = "mutation"
    /\ op' = "_load_file_metadata"

LoadOrMutationCompleted ==
    /\ \/ op \in {"on_query_selected", "on_tag_filter"}
       \/ op = "on_directory_selected"
             /\ log[1].msg \notin {"Permission denied", "Error reading directory"}
       \/ op \in {"on_tag_added", "on_tag_removed"} /\ log # <<>>
                                                    /\ log[1].msg \in SuccessLines
    /\ TimedOutCalls(calls) = 0

\* C4: on completion of every directory load, every query load (all tagged,
\* untagged or a tag query) and every successful tag mutation, the tag cache
\* holds the store's tag list for the current scope directory.
C4_CacheRebuiltAfterLoads ==
    LoadOrMutationCompleted => Range(_all_tags) = StoreTagList(store, current_path)

\* The step is a refresh, all of whose processes succeeded, made while the
\* view shows the result of the "untagged" query, which was answered.
RefreshOfUntaggedView ==
    /\ op = "on_query_selected"
    /\ calls # <<>>
    /\ calls[1].cmd = "untagged"
    /\ calls[1].ok
    /\ op' = "action_refresh"
    /\ \A i \in 1..Len(calls') : calls'[i].ok

\* C22: a refresh of the view of the "untagged" query leaves the file list
\* holding the up-to-date result of that query, the untagged files on disk.
C22_RefreshKeepsSource ==
    [][RefreshOfUntaggedView =>
          Range(_current_files') = {f \in disk' : store'[f] = {}}]_vars

\* The step is a directory selection that could not list its directory.
FailedDirectoryLoad ==
    /\ op' = "on_directory_selected"
    /\ log' # <<>>
    /\ log'[1].msg \in {"Permission denied", "Error reading directory"}

\* C20: a directory load that fails writes a message to the log and leaves the
\* file list, the table, the tag cache and, where one was loaded before, the
\* current directory as they were.
C20_FailedLoadLeavesState ==
    [][FailedDirectoryLoad =>
          /\ UNCHANGED <<_current_files, table, _all_tags>>
          /\ current_path # None => current_path' = current_path]_vars

\* The messages of the lines the last handler logged.
Logged(lines) == {lines[i].msg : i \in 1..Len(lines)}

\* C26: a tool path given in the dialog is taken exactly when the setter
\* reports it as valid; a rejected path and a path not given leave the
\* configured path as it was; and a client whose path is unset runs no process
\* of its tool, the application going on.
C26_OverridePath ==
    /\ [](\A i \in 1..Len(calls) :
            IF calls[i].cmd = "exiftool" THEN exiftool_path # None ELSE tmsu_path # None)
    /\ [][op' = "_handle_tool_paths" =>
             /\ "TMSU path configured" \in Logged(log') => tmsu_path' = "tmsu"
             /\ "Invalid TMSU path" \in Logged(log') =>
                   tmsu_path = None /\ tmsu_path' = None
             /\ Logged(log') \cap {"TMSU path configured", "Invalid TMSU path"} = {} =>
                   tmsu_path' = tmsu_path
             /\ "ExifTool path configured" \in Logged(log') => exiftool_path' = "exiftool"
             /\ "Invalid ExifTool path" \in Logged(log') =>
                   exiftool_path = None /\ exiftool_path' = None
             /\ Logged(log') \cap {"ExifTool path configured", "Invalid ExifTool path"} = {} =>
                   exiftool_path' = exiftool_path]_vars

\* C26 witness: the dialog gave a path for each tool; the one for tmsu was
\* rejected and tmsu stays unset, the one for exiftool was taken, and the tag
\* reload that follows ran no process.
C26_Witness ==
    /\ op = "_handle_tool_paths"
    /\ "Invalid TMSU path" \in Logged(log)
    /\ "ExifTool path configured" \in Logged(log)
    /\ tmsu_path = None
    /\ exiftool_path = "exiftool"
    /\ calls = <<>>

\* C27: the selected file, when there is one, is in the current file list.
C27_SelectionListed ==
    selected_file # None => selected_file \in Range(_current_files)

\* C28: whenever tag chips are shown, they were fetched for the selected file.
C28_ChipsOfSelection ==
    chips # <<>> => fetched_for = selected_file

\* C30: when the `tmsu tags` process exits with status 0 and prints nothing,
\* the tag reload ends with an empty tag cache and does not log that the tags
\* could not be loaded.
C30_EmptyStoreLoads ==
    [][(RefreshTags /\ tags_stdout = <<>>) =>
          /\ _all_tags' = <<>>
          /\ "Could not load tags" \notin Logged(log')]_vars

RoundTripDone == round_trip.phase = "removed"

====
